---------------------------- MODULE Spec2Model ----------------------------
(***************************************************************************)
(* A model of fall_2020/hw7_release/motion.py: the Lucas-Kanade optical    *)
(* flow estimators (lucas_kanade, iterative_lucas_kanade,                  *)
(* pyramid_lucas_kanade), the patch error metric (compute_error), the      *)
(* multi-frame tracker (track_features) and the bounding-box IoU utility.  *)
(*                                                                         *)
(* Frames are arrays of small integers.  The real numbers of the program   *)
(* are modelled exactly as rationals <<n, d>> (d > 0, lowest terms); the   *)
(* floating-point rounding error of numpy is not modelled.  A spatial      *)
(* gradient is carried doubled (2*Ix, 2*Iy) so that it stays an integer.   *)
(* A Python exception (LinAlgError, ValueError, AssertionError) is the     *)
(* value Raised of the operator that raises it and the position "raised"   *)
(* of the call that it ends.                                               *)
(***************************************************************************)
EXTENDS Integers, Sequences, FiniteSets, TLC

VARIABLES
    \* IoU(bbox1, bbox2)
    bbox1, bbox2, score, pcIoU,
    \* lucas_kanade / iterative_lucas_kanade / pyramid_lucas_kanade
    img1, img2, keypoints, window_size, num_iters, level, scale,
    fn, flow_vectors, pcLK,
    pyramid1, pyramid2, L, g, d, calls, pcPyr,
    \* track_features
    frames, kp_curr, trajs, i, error_thresh, exclude_border, optflow_fn,
    decisions, ids, pc

varsIoU   == <<bbox1, bbox2, score, pcIoU>>
varsIn    == <<img1, img2, keypoints, window_size, num_iters, level, scale>>
varsLK    == <<fn, flow_vectors, pcLK>>
varsPyr   == <<pyramid1, pyramid2, L, g, d, calls, pcPyr>>
varsTrack == <<frames, kp_curr, trajs, i, error_thresh, exclude_border,
               optflow_fn, decisions, ids, pc>>
vars      == <<varsIoU, varsIn, varsLK, varsPyr, varsTrack>>

(***************************************************************************)
(* Bounds of the model.                                                    *)
(***************************************************************************)
FrameH    == 6      \* rows of a frame
FrameW    == 6      \* columns of a frame
MaxFrames == 3      \* longest frame sequence given to track_features
MaxKp     == 2      \* most keypoints in a call
MaxBorder == 2      \* largest exclude_border
MaxLevel  == 1      \* largest pyramid level
MaxIters  == 2      \* largest num_iters
MaxCoord  == 2      \* largest box corner coordinate
MaxSide   == 4      \* largest box width or height
Peak      == 3      \* brightest pixel of a frame

\* what one keypoint's computation yields when it raises an exception, in
\* place of its <<., .>> flow vector
Raised == <<>>
\* what a call returns: its flow vectors, or nothing when an exception left it
Returns(fl) == [raised |-> FALSE, flows |-> fl]
Raises == [raised |-> TRUE, flows |-> <<>>]

(***************************************************************************)
(* Numbers.                                                                *)
(***************************************************************************)
Abs(x) == IF x < 0 THEN -x ELSE x
Max(a, b) == IF a >= b THEN a ELSE b
Min(a, b) == IF a <= b THEN a ELSE b

RECURSIVE GCD(_, _)
GCD(a, b) == IF b = 0 THEN a ELSE GCD(b, a % b)

\* the rational n/dd (dd # 0) in lowest terms with a positive denominator
Rat(n, dd) ==
    LET s  == IF dd < 0 THEN -1 ELSE 1
        gg == GCD(Abs(n), Abs(dd))
    IN  <<(s * n) \div gg, (s * dd) \div gg>>

Zero == <<0, 1>>
RInt(n) == <<n, 1>>
RAdd(a, b) ==
    LET gg == GCD(a[2], b[2])
    IN  Rat(a[1] * (b[2] \div gg) + b[1] * (a[2] \div gg), (a[2] \div gg) * b[2])
RMulInt(k, a) == Rat(k * a[1], a[2])
RDivInt(a, k) == Rat(a[1], a[2] * k)
\* a < b
RLess(a, b) == a[1] * b[2] < b[1] * a[2]

\* vectors <<row, column>> of rationals
VAdd(a, b) == <<RAdd(a[1], b[1]), RAdd(a[2], b[2])>>
VMulInt(k, a) == <<RMulInt(k, a[1]), RMulInt(k, a[2])>>
VDivInt(a, k) == <<RDivInt(a[1], k), RDivInt(a[2], k)>>

RECURSIVE Pow(_, _)
Pow(b, e) == IF e = 0 THEN 1 ELSE b * Pow(b, e - 1)

\* int(round(a)): Python rounds a half to the even neighbour
round(a) ==
    LET q == a[1] \div a[2]
        r == a[1] - q * a[2]
    IN  IF 2 * r < a[2] THEN q
        ELSE IF 2 * r > a[2] THEN q + 1
        ELSE IF q % 2 = 0 THEN q ELSE q + 1

RECURSIVE SumSeq(_)
SumSeq(s) == IF s = <<>> THEN 0 ELSE Head(s) + SumSeq(Tail(s))

\* sum of the elementwise product of two sequences of the same length
Dot(s, t) == SumSeq([k \in 1..Len(s) |-> s[k] * t[k]])

(***************************************************************************)
(* Arrays.  A frame is a sequence of rows; pixel (y, x), counted from 0,   *)
(* is img[y + 1][x + 1].                                                   *)
(***************************************************************************)
Height(img) == Len(img)
Width(img) == Len(img[1])
Px(img, y, x) == img[y + 1][x + 1]

\* the bound a Python slice a:b puts on an index into n elements: a negative
\* index counts from the end, and the result is clipped to 0..n
SliceBound(a, n) ==
    IF a < -n THEN 0 ELSE IF a < 0 THEN a + n ELSE IF a > n THEN n ELSE a

\* the indices a, a+1, ..., b-1 (none when b <= a)
Indices(a, b) == [k \in 1..Max(b - a, 0) |-> a + k - 1]

\* the indices the slice lo:hi selects among n elements
SliceIdx(lo, hi, n) == Indices(SliceBound(lo, n), SliceBound(hi, n))

\* img[rows, cols]: its shape and, row by row, its elements
Take(img, rows, cols) ==
    [nr |-> Len(rows), nc |-> Len(cols),
     vals |-> [k \in 1..(Len(rows) * Len(cols)) |->
                 Px(img, rows[((k - 1) \div Len(cols)) + 1],
                         cols[((k - 1) % Len(cols)) + 1])]]

\* img[y - w : y + w + 1, x - w : x + w + 1]
Window(img, y, x, w) ==
    Take(img, SliceIdx(y - w, y + w + 1, Height(img)),
              SliceIdx(x - w, x + w + 1, Width(img)))

\* whether img[y - w : y + w + 1, x - w : x + w + 1] reads inside the frame
InsideFrame(img, y, x, w) ==
    /\ y - w >= 0 /\ y + w <= Height(img) - 1
    /\ x - w >= 0 /\ x + w <= Width(img) - 1

(***************************************************************************)
(* np.gradient(img), doubled: central differences in the interior,         *)
(* one-sided differences on the first and last row and column.             *)
(***************************************************************************)
Grad2Y(img) ==
    [y1 \in 1..Height(img) |-> [x1 \in 1..Width(img) |->
        IF y1 = 1 THEN 2 * (img[2][x1] - img[1][x1])
        ELSE IF y1 = Height(img) THEN 2 * (img[y1][x1] - img[y1 - 1][x1])
        ELSE img[y1 + 1][x1] - img[y1 - 1][x1]]]

Grad2X(img) ==
    [y1 \in 1..Height(img) |-> [x1 \in 1..Width(img) |->
        IF x1 = 1 THEN 2 * (img[y1][2] - img[y1][1])
        ELSE IF x1 = Width(img) THEN 2 * (img[y1][x1] - img[y1][x1 - 1])
        ELSE img[y1][x1 + 1] - img[y1][x1 - 1]]]

\* a - b, elementwise
Diff(a, b) == [y1 \in 1..Height(a) |-> [x1 \in 1..Width(a) |-> a[y1][x1] - b[y1][x1]]]

\* np.gradient raises ValueError on an axis shorter than 2
GradientDefined(img) == Height(img) >= 2 /\ Width(img) >= 2

\* a variant of Collect for a function that cannot take an empty keypoint
\* array (C6 must tell it from Collect)
CollectNonEmpty(fl) ==
    IF fl = <<>> \/ \E k \in 1..Len(fl) : fl[k] = Raised THEN Raises ELSE Returns(fl)

\* a call's result from its keypoints' results: an exception in the loop
\* body leaves the call
Collect(fl) == IF \E k \in 1..Len(fl) : fl[k] = Raised THEN Raises ELSE Returns(fl)

(***************************************************************************)
(* lucas_kanade, one keypoint (the body of the loop at lines 44-65).       *)
(* With the doubled gradients, A^T A = N/4 and A^T It = c/2, so            *)
(* inv(A^T A) @ (-A^T It) = -2 adj(N) c / det(N).                          *)
(***************************************************************************)
\* the sums over the windows Ix_win, Iy_win, It_win: of Ix*Ix, Ix*Iy, Iy*Iy
\* (times 4) and of Ix*It, Iy*It (times 2)
Sums(wx, wy, wt) ==
    [xx |-> Dot(wx, wx), xy |-> Dot(wx, wy), yy |-> Dot(wy, wy),
     xt |-> Dot(wx, wt), yt |-> Dot(wy, wt)]

Det(s) == s.xx * s.yy - s.xy * s.xy

\* A = np.c_[Ix_win, Iy_win]: the unknown of column 1 multiplies Ix, that of
\* column 2 multiplies Iy; flow_v = inv(A.T @ A) @ (-A.T @ It_win), appended
\* as it is.  np.linalg.inv raises LinAlgError on a singular matrix: the
\* entries are sums of products of multiples of 1/2, exact in floating point,
\* and the elimination of a singular one ends on a pivot of exactly 0.
FlowOfColumns(s) ==
    IF Det(s) = 0 THEN Raised
    ELSE <<Rat(-2 * (s.yy * s.xt - s.xy * s.yt), Det(s)),
           Rat(-2 * (s.xx * s.yt - s.xy * s.xt), Det(s))>>

\* reshape(window_size**2, 1) raises ValueError on a window cut by the frame
FlowOfWindows(wx, wy, wt, ws) ==
    IF wx.nr * wx.nc # ws * ws THEN Raised
    ELSE FlowOfColumns(Sums(wx.vals, wy.vals, wt.vals))

lucas_kanade_at(im1, im2, kp, ws) ==
    FlowOfWindows(Window(Grad2X(im1), round(kp[1]), round(kp[2]), ws \div 2),
                  Window(Grad2Y(im1), round(kp[1]), round(kp[2]), ws \div 2),
                  Window(Diff(im2, im1), round(kp[1]), round(kp[2]), ws \div 2), ws)

\* the whole call: an exception, or one flow vector per keypoint in input order
lucas_kanade(im1, im2, kps, ws) ==
    IF ws % 2 # 1 \/ ~GradientDefined(im1) THEN Raises
    ELSE Collect([k \in 1..Len(kps) |-> lucas_kanade_at(im1, im2, kps[k], ws)])

(***************************************************************************)
(* iterative_lucas_kanade, one keypoint (the body of the loop at lines     *)
(* 101-147).  With the doubled gradients G = N/4 and bk = c/2, so          *)
(* inv(G) @ bk = 2 adj(N) c / det(N).                                      *)
(***************************************************************************)
\* Ik = A - B on two columns: numpy broadcasts a one-element column and
\* raises ValueError on any other difference of length
Broadcastable(A, B) == Len(A) = Len(B) \/ Len(A) = 1 \/ Len(B) = 1

Residual(A, B) ==
    IF Len(A) = Len(B) THEN [k \in 1..Len(A) |-> A[k] - B[k]]
    ELSE IF Len(B) = 1 THEN [k \in 1..Len(A) |-> A[k] - B[1]]
    ELSE [k \in 1..Len(B) |-> A[1] - B[k]]

\* np.sum(Ik * Ax), Ax broadcast when it has one element
SumProduct(Ik, Ax) ==
    IF Len(Ax) = Len(Ik) THEN Dot(Ik, Ax) ELSE SumSeq(Ik) * Ax[1]

\* lines 107-117: the window of img1 and of its gradients, and G
Reference(A, Ax, Ay) ==
    [A |-> A, Ax |-> Ax, Ay |-> Ay,
     xx |-> Dot(Ax, Ax), xy |-> Dot(Ax, Ay), yy |-> Dot(Ay, Ay)]

\* lines 139-144: vk = G_inv @ bk; v += vk
AddStep(S, v, bx, by) ==
    <<RAdd(v[1], Rat(2 * (S.yy * bx - S.xy * by), Det(S))),
      RAdd(v[2], Rat(2 * (S.xx * by - S.xy * bx), Det(S)))>>

\* lines 129-144, B the window of img2
Compare(S, v, B) ==
    IF ~Broadcastable(S.A, B) THEN Raised
    ELSE AddStep(S, v, SumProduct(Residual(S.A, B), S.Ax),
                       SumProduct(Residual(S.A, B), S.Ay))

\* lines 123-144: one pass of the loop, from v = <<vx, vy>>
Update(im2, kp, gk, w, S, v) ==
    IF v = Raised THEN Raised
    ELSE Compare(S, v, Window(im2, round(RAdd(RAdd(kp[1], gk[1]), v[2])),
                                   round(RAdd(RAdd(kp[2], gk[2]), v[1])), w).vals)

\* v after k passes of the loop at lines 122-144
RECURSIVE IterateFlow(_, _, _, _, _, _)
IterateFlow(im2, kp, gk, w, S, k) ==
    IF k = 0 THEN <<Zero, Zero>>
    ELSE Update(im2, kp, gk, w, S, IterateFlow(im2, kp, gk, w, S, k - 1))

\* flow_vectors.append([vy, vx])
ReportFlow(v) == IF v = Raised THEN Raised ELSE <<v[2], v[1]>>

Refine(im2, kp, gk, w, iters, S) ==
    IF Det(S) = 0 THEN Raised                   \* np.linalg.inv: LinAlgError
    ELSE ReportFlow(IterateFlow(im2, kp, gk, w, S, iters))

iterative_lucas_kanade_at(im1, im2, kp, gk, ws, iters) ==
    Refine(im2, kp, gk, ws \div 2, iters,
           Reference(Window(im1, round(kp[1]), round(kp[2]), ws \div 2).vals,
                     Window(Grad2X(im1), round(kp[1]), round(kp[2]), ws \div 2).vals,
                     Window(Grad2Y(im1), round(kp[1]), round(kp[2]), ws \div 2).vals))

\* g = np.zeros(keypoints.shape)
ZeroGuess(kps) == [k \in 1..Len(kps) |-> <<Zero, Zero>>]

\* the whole call: an exception, or one flow vector per keypoint in input order
iterative_lucas_kanade(im1, im2, kps, ws, iters, gs) ==
    IF ws % 2 # 1 \/ ~GradientDefined(im1) THEN Raises
    ELSE Collect([k \in 1..Len(kps) |->
                    iterative_lucas_kanade_at(im1, im2, kps[k], gs[k], ws, iters)])

(***************************************************************************)
(* pyramid_lucas_kanade.  The Gaussian pyramid is skimage's                *)
(* pyramid_gaussian: layer 0 is the frame, each further layer is the       *)
(* previous one smoothed and resampled to ceil(rows / downscale) by        *)
(* ceil(columns / downscale), and the layers end at max_layer or when the  *)
(* shape stops shrinking.  The smoothing is modelled by the mean (rounded  *)
(* down) of each downscale x downscale block.                              *)
(***************************************************************************)
CeilDiv(n, k) == (n + k - 1) \div k

\* the mean of the block whose first pixel is (y, x), the frame's last row
\* and column repeated past its edge
BlockMean(img, y, x, sc) ==
    SumSeq([k \in 1..(sc * sc) |->
              Px(img, Min(y + ((k - 1) \div sc), Height(img) - 1),
                      Min(x + ((k - 1) % sc), Width(img) - 1))])
    \div (sc * sc)

Reduce(img, sc) ==
    [y1 \in 1..CeilDiv(Height(img), sc) |-> [x1 \in 1..CeilDiv(Width(img), sc) |->
        BlockMean(img, (y1 - 1) * sc, (x1 - 1) * sc, sc)]]

SameShape(a, b) == Height(a) = Height(b) /\ Width(a) = Width(b)

RECURSIVE Layers(_, _, _, _)
Layers(img, next, max_layer, downscale) ==
    IF max_layer = 0 \/ SameShape(img, next) THEN <<img>>
    ELSE <<img>> \o Layers(next, Reduce(next, downscale), max_layer - 1, downscale)

pyramid_gaussian(img, max_layer, downscale) ==
    Layers(img, Reduce(img, downscale), max_layer, downscale)

\* keypoints_L = keypoints / (scale**L)
KeypointsAt(kps, sc, lv) == [k \in 1..Len(kps) |-> VDivInt(kps[k], Pow(sc, lv))]

\* a variant of NextGuess that rescales after level 0 too (C9 must tell it
\* from NextGuess)
NextGuessAlways(gs, ds, sc, lv) ==
    [k \in 1..Len(gs) |-> VMulInt(sc, VAdd(gs[k], ds[k]))]

\* a variant of NextGuess that leaves the displacement of the level out of
\* the next guess (C10 must tell it from NextGuess)
NextGuessWithoutD(gs, ds, sc, lv) ==
    IF lv # 0 THEN [k \in 1..Len(gs) |-> VMulInt(sc, gs[k])]
    ELSE gs

\* g = scale * (g + d), taken only when L != 0
NextGuess(gs, ds, sc, lv) ==
    IF lv # 0 THEN [k \in 1..Len(gs) |-> VMulInt(sc, VAdd(gs[k], ds[k]))]
    ELSE gs

\* d = g + d
FinalFlow(gs, ds) == [k \in 1..Len(gs) |-> VAdd(gs[k], ds[k])]

\* the refiner call of level lv (lines 181-186): pyramid1[L] raises
\* IndexError past the last layer
RefineAt(p1, p2, kps, ws, iters, sc, lv, gs) ==
    IF lv + 1 > Len(p1) THEN Raises
    ELSE iterative_lucas_kanade(p1[lv + 1], p2[lv + 1], KeypointsAt(kps, sc, lv),
                                ws, iters, gs)

\* the loop of lines 180-190 from level lv down to 0, then lines 192-193
RECURSIVE PyramidFrom(_, _, _, _, _, _, _, _)
\* the rest of the loop after the refiner call of level lv returned r
AfterLevel(p1, p2, kps, ws, iters, sc, lv, gs, r) ==
    IF r.raised THEN Raises
    ELSE IF lv = 0 THEN Returns(FinalFlow(gs, r.flows))
    ELSE PyramidFrom(p1, p2, kps, ws, iters, sc, lv - 1, NextGuess(gs, r.flows, sc, lv))

PyramidFrom(p1, p2, kps, ws, iters, sc, lv, gs) ==
    AfterLevel(p1, p2, kps, ws, iters, sc, lv, gs,
               RefineAt(p1, p2, kps, ws, iters, sc, lv, gs))

pyramid_lucas_kanade(im1, im2, kps, ws, iters, lev, sc) ==
    PyramidFrom(pyramid_gaussian(im1, lev, sc), pyramid_gaussian(im2, lev, sc),
                kps, ws, iters, sc, lev, ZeroGuess(kps))

(***************************************************************************)
(* compute_error.  For patches of n elements with sums S1, S2, let         *)
(* V1 = n*sum(p1^2) - S1^2, V2 likewise and C = n*sum(p1*p2) - S1*S2.      *)
(* Then np.std(p1) = sqrt(V1)/n, and the mean squared difference of the    *)
(* two normalised patches is 2 - 2*C/sqrt(V1*V2).  The error is carried as *)
(* the pair (C, V1*V2).  It is nan when a patch is empty (np.mean of       *)
(* nothing) or has zero standard deviation (0/0), and the call raises      *)
(* AssertionError when the shapes differ.                                  *)
(***************************************************************************)
\* n^2 times the variance of the n elements of p
Spread(p) == Len(p) * Dot(p, p) - SumSeq(p) * SumSeq(p)

\* whether np.std(p) is 0: (p - mean) / std is then 0/0
ZeroStd(p) == Spread(p) = 0

NormalisedError(p1, p2) ==
    [raised |-> FALSE,
     nan |-> (Len(p1) = 0 \/ ZeroStd(p1) \/ ZeroStd(p2)),
     c |-> Len(p1) * Dot(p1, p2) - SumSeq(p1) * SumSeq(p2),
     vv |-> Spread(p1) * Spread(p2)]

compute_error(patch1, patch2) ==
    IF patch1.nr # patch2.nr \/ patch1.nc # patch2.nc
    THEN [raised |-> TRUE, nan |-> FALSE, c |-> 0, vv |-> 0]
    ELSE NormalisedError(patch1.vals, patch2.vals)

\* a*rd < rn*sqrt(vv), for rd > 0, decided by sign and then by the squares
LessThanRoot(a, rn, vv) ==
    IF a < 0 /\ rn >= 0 THEN TRUE
    ELSE IF a >= 0 /\ rn <= 0 THEN FALSE
    ELSE IF a >= 0 THEN a * a < rn * rn * vv
    ELSE a * a > rn * rn * vv

\* error > error_thresh.  A comparison with nan is False.  Otherwise
\* 2 - 2*c/sqrt(vv) > t  iff  c/sqrt(vv) < 1 - t/2 = rn/rd, with
\* rn = 2*td - tn and rd = 2*td for t = tn/td.
Exceeds(err, thresh) ==
    IF err.nan THEN FALSE
    ELSE LessThanRoot(err.c * 2 * thresh[2], 2 * thresh[2] - thresh[1], err.vv)

(***************************************************************************)
(* track_features: the survival loop of one frame transition (lines        *)
(* 254-280).                                                               *)
(***************************************************************************)
patch_size == 3

\* a variant of OutsideBorder whose comparisons include the limit (C3 must
\* tell it from OutsideBorder)
OutsideBorderInclusive(J, yj, xj, border) ==
    \/ yj >= Height(J) - border - 1
    \/ yj <= border
    \/ xj >= Width(J) - border - 1
    \/ xj <= border

\* the test of lines 265-270: the point falls outside the image
OutsideBorder(J, yj, xj, border) ==
    \/ yj > Height(J) - border - 1
    \/ yj < border
    \/ xj > Width(J) - border - 1
    \/ xj < border

\* lines 276-280: "error" is the continue statement, "kept" the append,
\* "assert" the AssertionError of compute_error
Judge(err, thresh) ==
    IF err.raised THEN "assert"
    ELSE IF Exceeds(err, thresh) THEN "error"
    ELSE "kept"

\* what the loop body does with the keypoint at (yi, xi) that moved to
\* (yj, xj); "border" is the continue statement of line 271
DecideAt(I, J, yi, xi, yj, xj, thresh, border) ==
    [yi |-> yi, xi |-> xi, yj |-> yj, xj |-> xj,
     outcome |-> IF OutsideBorder(J, yj, xj, border) THEN "border"
                 ELSE Judge(compute_error(Window(I, yi, xi, patch_size \div 2),
                                          Window(J, yj, xj, patch_size \div 2)),
                            thresh)]

\* lines 260-263
Decide(I, J, kc, kn, thresh, border) ==
    DecideAt(I, J, round(kc[1]), round(kc[2]), round(kn[1]), round(kn[2]), thresh, border)

\* the decisions up to and including the first that raises
RECURSIVE UntilRaise(_, _)
UntilRaise(all, k) ==
    IF k > Len(all) THEN <<>>
    ELSE IF all[k].outcome = "assert" THEN <<all[k]>>
    ELSE <<all[k]>> \o UntilRaise(all, k + 1)

\* the loop over np.hstack((kp_curr, kp_next)): one decision per keypoint, in
\* order
SurvivalLoop(I, J, kps, nexts, thresh, border) ==
    UntilRaise([k \in 1..Len(kps) |-> Decide(I, J, kps[k], nexts[k], thresh, border)], 1)

\* the indices, from k on, of the keypoints kept
RECURSIVE KeptIndices(_, _)
KeptIndices(ds, k) ==
    IF k > Len(ds) THEN <<>>
    ELSE IF ds[k].outcome = "kept" THEN <<k>> \o KeptIndices(ds, k + 1)
    ELSE KeptIndices(ds, k + 1)

\* new_keypoints.append([yj, xj])
NewKeypoint(dec) == <<RInt(dec.yj), RInt(dec.xj)>>

\* a variant of NewKeypoints that appends the old position of a kept
\* keypoint along with the new one (C1 must tell it from NewKeypoints)
NewKeypointsWithOld(ds) ==
    [k \in 1..(2 * Len(KeptIndices(ds, 1))) |->
        IF k % 2 = 1 THEN <<RInt(ds[KeptIndices(ds, 1)[(k + 1) \div 2]].yi),
                            RInt(ds[KeptIndices(ds, 1)[(k + 1) \div 2]].xi)>>
        ELSE NewKeypoint(ds[KeptIndices(ds, 1)[k \div 2]])]

\* np.array(new_keypoints)
NewKeypoints(ds) == [k \in 1..Len(KeptIndices(ds, 1)) |-> NewKeypoint(ds[KeptIndices(ds, 1)[k]])]

\* the rows of new_keypoints named by the indices that prev gives the rows of
\* kp_curr
Survivors(prev, ds) == [k \in 1..Len(KeptIndices(ds, 1)) |-> prev[KeptIndices(ds, 1)[k]]]

\* kp_next = kp_curr + flow_vectors
MovedBy(kps, fl) == [k \in 1..Len(kps) |-> VAdd(kps[k], fl[k])]

(***************************************************************************)
(* IoU.                                                                    *)
(***************************************************************************)
\* np.amax(a, 0) of a scalar a: the second argument is the axis to reduce
\* along, and the maximum of a 0-d array along axis 0 is the scalar itself
amax_axis0(a) == a

\* the score, carried as <<intersection, union>> (numpy divides: a zero
\* union gives inf or nan, not an exception)
IoU(b1, b2) ==
    LET x1 == b1[1]
        y1 == b1[2]
        w1 == b1[3]
        h1 == b1[4]
        x2 == b2[1]
        y2 == b2[2]
        w2 == b2[3]
        h2 == b2[4]
        xA == Max(x1, x2)
        yA == Max(y1, y2)
        xB == Min(x1 + w1, x2 + w2)
        yB == Min(y1 + h1, y2 + h2)
        xAB == amax_axis0(xB - xA)
        yAB == amax_axis0(yB - yA)
        intersection == xAB * yAB
        union == w1 * h1 + w2 * h2 - intersection
    IN  <<intersection, union>>

(***************************************************************************)
(* Inputs.                                                                 *)
(***************************************************************************)
\* a constant frame
Flat(c) == [y1 \in 1..FrameH |-> [x1 \in 1..FrameW |-> c]]

\* a bright spot at (cy, cx) that fades with the distance from it
Blob(cy, cx) ==
    [y1 \in 1..FrameH |-> [x1 \in 1..FrameW |->
        Max(0, Peak - Abs(y1 - 1 - cy) - Abs(x1 - 1 - cx))]]

\* the spot moves by (vy, vx) from one frame to the next
Video(cy, cx, vy, vx, n) == [t \in 1..n |-> Blob(cy + (t - 1) * vy, cx + (t - 1) * vx)]

Videos ==
    {Video(2, 2, v[1], v[2], n) : v \in {<<0, 0>>, <<0, 1>>, <<1, 0>>}, n \in 1..MaxFrames}
    \cup {[t \in 1..n |-> Flat(1)] : n \in 1..MaxFrames}

FramePairs ==
    {<<Blob(2, 2), Blob(2 + v[1], 2 + v[2])>> :
        v \in {<<0, 0>>, <<0, 1>>, <<1, 0>>, <<1, 1>>}}
    \cup {<<Flat(1), Flat(1)>>, <<Flat(1), Blob(2, 2)>>}

\* keypoint positions <<row, column>>; the last lies between pixels
Positions ==
    <<<<RInt(0), RInt(2)>>, <<RInt(2), RInt(2)>>, <<RInt(2), RInt(3)>>,
      <<RInt(3), RInt(3)>>, <<Rat(5, 2), Rat(3, 2)>>>>

\* the keypoint arrays of at most MaxKp rows taken from Positions in order
KeypointSets ==
    LET picks == UNION {[1..n -> 1..Len(Positions)] : n \in 0..MaxKp}
    IN  {[k \in 1..Len(pk) |-> Positions[pk[k]]] :
            pk \in {q \in picks : \A k \in 1..(Len(q) - 1) : q[k] < q[k + 1]}}

WindowSizes == {3}
Scales == {2}
Thresholds == {<<3, 2>>, <<1, 2>>}
Boxes == (0..MaxCoord) \X (0..MaxCoord) \X (1..MaxSide) \X (1..MaxSide)

\* a flow function of the caller's: any displacement of each keypoint
Displacements ==
    {<<RInt(v[1]), RInt(v[2])>> : v \in {<<0, 0>>, <<1, 0>>, <<-1, 0>>, <<0, 1>>, <<0, -1>>}}

None == <<>>

IdleIoU == bbox1 = None /\ bbox2 = None /\ score = None /\ pcIoU = "idle"
IdleIn ==
    /\ img1 = None /\ img2 = None /\ keypoints = None
    /\ window_size = 0 /\ num_iters = 0 /\ level = 0 /\ scale = 0
IdleLK == fn = "none" /\ flow_vectors = None /\ pcLK = "idle"
IdlePyr ==
    /\ pyramid1 = None /\ pyramid2 = None
    /\ L = 0 /\ g = None /\ d = None /\ calls = None /\ pcPyr = "idle"
IdleTrack ==
    /\ frames = None /\ kp_curr = None /\ trajs = None /\ i = 0
    /\ error_thresh = Zero /\ exclude_border = 0 /\ optflow_fn = "none"
    /\ decisions = None /\ ids = None /\ pc = "idle"

(***************************************************************************)
(* A call of IoU.                                                          *)
(***************************************************************************)
InitIoU ==
    /\ bbox1 \in Boxes /\ bbox2 \in Boxes
    /\ score = None /\ pcIoU = "call"
    /\ IdleIn /\ IdleLK /\ IdlePyr /\ IdleTrack

IoUCall ==
    /\ pcIoU = "call"
    /\ score' = IoU(bbox1, bbox2)
    /\ pcIoU' = "done"
    /\ UNCHANGED <<bbox1, bbox2, varsIn, varsLK, varsPyr, varsTrack>>

NextIoU == IoUCall
SpecIoU == InitIoU /\ [][NextIoU]_vars

(***************************************************************************)
(* A call of lucas_kanade or of iterative_lucas_kanade (g not given), one  *)
(* step per keypoint of its loop.                                          *)
(***************************************************************************)
InitLK ==
    /\ \E fp \in FramePairs : img1 = fp[1] /\ img2 = fp[2]
    /\ keypoints \in KeypointSets
    /\ window_size \in WindowSizes
    /\ num_iters \in 1..MaxIters
    /\ level = 0 /\ scale = 0
    /\ fn \in {"lucas_kanade", "iterative_lucas_kanade"}
    /\ flow_vectors = <<>>
    /\ pcLK = "enter"
    /\ IdleIoU /\ IdlePyr /\ IdleTrack

\* the flow vector the loop body of the called function appends for keypoint k
FlowAt(k) ==
    IF fn = "lucas_kanade"
    THEN lucas_kanade_at(img1, img2, keypoints[k], window_size)
    ELSE iterative_lucas_kanade_at(img1, img2, keypoints[k], ZeroGuess(keypoints)[k],
                                   window_size, num_iters)

\* lines 33-40, 89-99: the assertion and the gradients
LKEnter ==
    /\ pcLK = "enter"
    /\ pcLK' = IF window_size % 2 # 1 \/ ~GradientDefined(img1) THEN "raised" ELSE "loop"
    /\ UNCHANGED <<varsIoU, varsIn, fn, flow_vectors, varsPyr, varsTrack>>

\* lines 44-65, 101-147: one keypoint
LKKeypoint ==
    /\ pcLK = "loop"
    /\ Len(flow_vectors) < Len(keypoints)
    /\ \E fl \in {FlowAt(Len(flow_vectors) + 1)} :
          IF fl = Raised
          THEN pcLK' = "raised" /\ flow_vectors' = flow_vectors
          ELSE pcLK' = pcLK /\ flow_vectors' = Append(flow_vectors, fl)
    /\ UNCHANGED <<varsIoU, varsIn, fn, varsPyr, varsTrack>>

\* lines 67-69, 149
LKReturn ==
    /\ pcLK = "loop"
    /\ Len(flow_vectors) = Len(keypoints)
    /\ pcLK' = "done"
    /\ UNCHANGED <<varsIoU, varsIn, fn, flow_vectors, varsPyr, varsTrack>>

NextLK == LKEnter \/ LKKeypoint \/ LKReturn
SpecLK == InitLK /\ [][NextLK]_vars

(***************************************************************************)
(* A call of pyramid_lucas_kanade, one step per pyramid level.  calls      *)
(* records each call of the refiner: its level, the guess it was given     *)
(* and the displacement it returned.                                       *)
(***************************************************************************)
InitPyr ==
    /\ \E fp \in FramePairs : img1 = fp[1] /\ img2 = fp[2]
    /\ keypoints \in KeypointSets
    /\ window_size \in WindowSizes
    /\ num_iters \in 1..MaxIters
    /\ level \in 0..MaxLevel
    /\ scale \in Scales
    /\ pyramid1 = None /\ pyramid2 = None
    /\ L = 0 /\ g = None /\ d = None
    /\ calls = <<>>
    /\ pcPyr = "build"
    /\ IdleIoU /\ IdleLK /\ IdleTrack

\* lines 173-177: the two pyramids and the zero guess
PyrBuild ==
    /\ pcPyr = "build"
    /\ pyramid1' = pyramid_gaussian(img1, level, scale)
    /\ pyramid2' = pyramid_gaussian(img2, level, scale)
    /\ g' = ZeroGuess(keypoints)
    /\ L' = level                       \* range(level, -1, -1)
    /\ pcPyr' = "loop"
    /\ UNCHANGED <<d, calls, varsIoU, varsIn, varsLK, varsTrack>>

\* lines 181-190: the body of the loop at level L
PyrLevel ==
    /\ pcPyr = "loop"
    /\ L >= 0
    /\ \E r \in {RefineAt(pyramid1, pyramid2, keypoints, window_size, num_iters,
                          scale, L, g)} :
          IF r.raised
          THEN pcPyr' = "raised" /\ UNCHANGED <<L, g, d, calls>>
          ELSE /\ d' = r.flows
               /\ calls' = Append(calls, [level |-> L, guess |-> g, d |-> r.flows])
               /\ g' = NextGuess(g, r.flows, scale, L)
               /\ L' = L - 1
               /\ pcPyr' = pcPyr
    /\ UNCHANGED <<pyramid1, pyramid2, varsIoU, varsIn, varsLK, varsTrack>>

\* lines 192-193
PyrReturn ==
    /\ pcPyr = "loop"
    /\ L < 0
    /\ d' = FinalFlow(g, d)
    /\ pcPyr' = "done"
    /\ UNCHANGED <<pyramid1, pyramid2, L, g, calls, varsIoU, varsIn, varsLK, varsTrack>>

NextPyr == PyrBuild \/ PyrLevel \/ PyrReturn
SpecPyr == InitPyr /\ [][NextPyr]_vars

(***************************************************************************)
(* A call of track_features, one step per frame transition.  decisions     *)
(* records what the survival loop of the last transition did with each     *)
(* keypoint, and ids[k] the index, in the caller's keypoints, of each row   *)
(* of trajs[k].  The flow function is one of the three of this file,       *)
(* called with the keyword arguments window_size, num_iters, level and     *)
(* scale, or a function of the caller's.                                   *)
(***************************************************************************)
FlowFunctions ==
    {"lucas_kanade", "iterative_lucas_kanade", "pyramid_lucas_kanade", "caller"}

InitTrack ==
    /\ frames \in Videos
    /\ kp_curr \in KeypointSets         \* kp_curr = keypoints
    /\ trajs = <<kp_curr>>
    /\ i = 0
    /\ error_thresh \in Thresholds
    /\ exclude_border \in 0..MaxBorder
    /\ optflow_fn \in FlowFunctions
    /\ window_size \in WindowSizes /\ num_iters = 1 /\ level = 1 /\ scale \in Scales
    /\ decisions = <<>>
    /\ ids = <<[k \in 1..Len(kp_curr) |-> k]>>
    /\ pc = "loop"
    /\ img1 = None /\ img2 = None /\ keypoints = None
    /\ IdleIoU /\ IdleLK /\ IdlePyr

\* optflow_fn(I, J, kp_curr, **kwargs): what the call may return
OptFlow(I, J, kps) ==
    IF optflow_fn = "lucas_kanade" THEN {lucas_kanade(I, J, kps, window_size)}
    ELSE IF optflow_fn = "iterative_lucas_kanade"
    THEN {iterative_lucas_kanade(I, J, kps, window_size, num_iters, ZeroGuess(kps))}
    ELSE IF optflow_fn = "pyramid_lucas_kanade"
    THEN {pyramid_lucas_kanade(I, J, kps, window_size, num_iters, level, scale)}
    ELSE {Returns(fl) : fl \in [1..Len(kps) -> Displacements]}

\* whether the survival loop ended in an exception
Raising(ds) == ds # <<>> /\ ds[Len(ds)].outcome = "assert"

\* lines 249-283: one pass of the loop over the frames
TrackStep ==
    /\ pc = "loop"
    /\ i < Len(frames) - 1
    /\ \E r \in OptFlow(frames[i + 1], frames[i + 2], kp_curr) :
          IF r.raised
          THEN /\ pc' = "raised"
               /\ decisions' = <<>>
               /\ UNCHANGED <<kp_curr, trajs, i, ids>>
          ELSE \E ds \in {SurvivalLoop(frames[i + 1], frames[i + 2], kp_curr,
                                       MovedBy(kp_curr, r.flows),
                                       error_thresh, exclude_border)} :
                  /\ decisions' = ds
                  /\ IF Raising(ds)
                     THEN pc' = "raised" /\ UNCHANGED <<kp_curr, trajs, i, ids>>
                     ELSE /\ kp_curr' = NewKeypoints(ds)
                          /\ trajs' = Append(trajs, NewKeypoints(ds))
                          /\ ids' = Append(ids, Survivors(ids[Len(ids)], ds))
                          /\ i' = i + 1
                          /\ pc' = pc
    /\ UNCHANGED <<frames, error_thresh, exclude_border, optflow_fn,
                   varsIoU, varsIn, varsLK, varsPyr>>

\* line 285
TrackReturn ==
    /\ pc = "loop"
    /\ i >= Len(frames) - 1
    /\ pc' = "done"
    /\ UNCHANGED <<frames, kp_curr, trajs, i, error_thresh, exclude_border,
                   optflow_fn, decisions, ids, varsIoU, varsIn, varsLK, varsPyr>>

NextTrack == TrackStep \/ TrackReturn
Spec == InitTrack /\ [][NextTrack]_vars

(***************************************************************************)
(* Properties of track_features (specification Spec).                      *)
(***************************************************************************)
Range(f) == {f[k] : k \in DOMAIN f}

\* whether every row of b is a row of a, in the same order
SubsequenceOf(b, a) ==
    /\ Range(b) \subseteq Range(a)
    /\ \A k \in 1..(Len(b) - 1) : b[k] < b[k + 1]

\* the patch of decision dec was extracted (lines 274-275 were reached)
Extracted(dec) == dec.outcome # "border"

\* the last transition appended an entry to trajs
Appended == pc # "raised" /\ Len(trajs) >= 2 /\ Len(decisions) = Len(trajs[Len(trajs) - 1])

\* the distance, in pixels, of the rounded next position from the nearest
\* frame edge (negative outside the frame)
EdgeDistance(dec) == Min(Min(dec.yj, FrameH - 1 - dec.yj), Min(dec.xj, FrameW - 1 - dec.xj))

\* the frames I and J of the last transition (i has advanced unless the
\* transition raised)
LastI == frames[IF pc = "raised" THEN i + 1 ELSE i]
LastJ == frames[IF pc = "raised" THEN i + 2 ELSE i + 1]

\* the error of the two patches of decision dec exceeds error_thresh
ErrorExceeds(dec) ==
    Exceeds(compute_error(Window(LastI, dec.yi, dec.xi, patch_size \div 2),
                          Window(LastJ, dec.yj, dec.xj, patch_size \div 2)),
            error_thresh)

\* the 3x3 patch of img around (y, x) lies in the frame and is constant
ConstantPatch(img, y, x) ==
    /\ InsideFrame(img, y, x, patch_size \div 2)
    /\ ZeroStd(Window(img, y, x, patch_size \div 2).vals)

\* keypoint k of the last transition is in the entry it appended
Survived(k) == ids[Len(ids) - 1][k] \in Range(ids[Len(ids)])

\* C1: the trajectory never grows: each entry has at most as many keypoints
\* as the one before it, and its keypoints are keypoints of the one before
\* it, in the same order (none is added, none comes back).
C1_MonotonicShrinkage ==
    /\ Len(ids) = Len(trajs)
    /\ \A k \in 1..Len(trajs) : Len(ids[k]) = Len(trajs[k])
    /\ \A k \in 1..(Len(trajs) - 1) :
          /\ Len(trajs[k + 1]) <= Len(trajs[k])
          /\ SubsequenceOf(ids[k + 1], ids[k])

\* C1 witness: three frames tracked, a keypoint lost on the way and one left
C1_Witness ==
    /\ pc = "done" /\ Len(trajs) >= 3
    /\ Len(trajs[2]) < Len(trajs[1])
    /\ Len(trajs[3]) >= 1

\* C2: every patch the survival loop extracts lies inside the frame: a
\* keypoint whose current or next 3x3 patch would leave the frame is dropped
\* by the border test.
C2_PatchesInsideFrame ==
    \A k \in 1..Len(decisions) :
        Extracted(decisions[k]) =>
            /\ InsideFrame(LastI, decisions[k].yi, decisions[k].xi, patch_size \div 2)
            /\ InsideFrame(LastJ, decisions[k].yj, decisions[k].xj, patch_size \div 2)

C4_FlatPatchDropped ==
    \A k \in 1..Len(decisions) :
        (/\ Extracted(decisions[k])
         /\ decisions[k].outcome # "assert"
         /\ \/ ConstantPatch(LastI, decisions[k].yi, decisions[k].xi)
            \/ ConstantPatch(LastJ, decisions[k].yj, decisions[k].xj))
        => decisions[k].outcome # "kept"

\* C6: once an entry of the trajectory is empty every later one is empty, no
\* exception arises while the live set is empty, and the call returns one
\* entry per frame.
C6_EmptyStaysEmpty ==
    /\ \A k \in 1..Len(trajs) : \A m \in k..Len(trajs) :
          trajs[k] = <<>> => trajs[m] = <<>>
    /\ pc = "raised" => kp_curr # <<>>
    /\ pc = "done" => Len(trajs) = Len(frames)

\* C6 witness: the live set emptied at the second frame and the call went on
\* through a later transition with one of the flow functions of the file
C6_Witness ==
    /\ pc = "done" /\ Len(trajs) >= 3 /\ optflow_fn = "pyramid_lucas_kanade"
    /\ trajs[1] # <<>> /\ trajs[2] = <<>> /\ trajs[Len(trajs)] = <<>>

(***************************************************************************)
(* Properties of lucas_kanade and iterative_lucas_kanade (specification    *)
(* SpecLK).                                                                *)
(***************************************************************************)
\* the call passed the assertion and the gradients
Entered == window_size % 2 = 1 /\ GradientDefined(img1)

\* the windows of keypoint k are whole (window_size x window_size)
WholeWindowAt(k) ==
    InsideFrame(img1, round(keypoints[k][1]), round(keypoints[k][2]), window_size \div 2)

\* the sums that make the 2x2 normal matrix of keypoint k (A^T A; G has the
\* same entries) and its right-hand side
NormalSumsAt(k) ==
    Sums(Window(Grad2X(img1), round(keypoints[k][1]), round(keypoints[k][2]),
                window_size \div 2).vals,
         Window(Grad2Y(img1), round(keypoints[k][1]), round(keypoints[k][2]),
                window_size \div 2).vals,
         Window(Diff(img2, img1), round(keypoints[k][1]), round(keypoints[k][2]),
                window_size \div 2).vals)

\* the normal matrix of keypoint k is singular
SingularAt(k) == WholeWindowAt(k) /\ Det(NormalSumsAt(k)) = 0

\* C5: a keypoint whose normal matrix is singular never ends the call in an
\* exception: the loop goes on to the other keypoints.
C5_SingularNeverAborts ==
    (Entered /\ pcLK = "raised" /\ Len(flow_vectors) < Len(keypoints))
        => ~SingularAt(Len(flow_vectors) + 1)

\* f = <<f0, f1>> solves the least-squares normal equations of the sums s
\* with f0 the unknown that multiplies Iy and f1 the one that multiplies Ix:
\*   sum(Iy*Iy) f0 + sum(Ix*Iy) f1 = -sum(Iy*It)
\*   sum(Ix*Iy) f0 + sum(Ix*Ix) f1 = -sum(Ix*It)
\* (the sums of s carry the factors 4 and 2 of the doubled gradients)
SolvesRowColumn(s, f) ==
    /\ RAdd(RMulInt(s.yy, f[1]), RMulInt(s.xy, f[2])) = RInt(-2 * s.yt)
    /\ RAdd(RMulInt(s.xy, f[1]), RMulInt(s.xx, f[2])) = RInt(-2 * s.xt)

\* C7: every flow vector lucas_kanade returns is in (row, column) order:
\* component 0 is the displacement along the rows (the unknown of Iy) and
\* component 1 the displacement along the columns (the unknown of Ix).
C7_RowColumnOrder ==
    (fn = "lucas_kanade" /\ pcLK = "done") =>
        \A k \in 1..Len(flow_vectors) : SolvesRowColumn(NormalSumsAt(k), flow_vectors[k])

(***************************************************************************)
(* Properties of IoU (specification SpecIoU).                              *)
(***************************************************************************)
\* the overlap of the intervals [a, a + la] and [b, b + lb], not below 0
Overlap(a, la, b, lb) == Max(Min(a + la, b + lb) - Max(a, b), 0)

\* the area of the intersection of two boxes, its sides clamped at 0
ClampedIntersection(b1, b2) ==
    Overlap(b1[1], b1[3], b2[1], b2[3]) * Overlap(b1[2], b1[4], b2[2], b2[4])

ClampedUnion(b1, b2) == b1[3] * b1[4] + b2[3] * b2[4] - ClampedIntersection(b1, b2)

\* C8: the score is the area of the intersection, its sides clamped at 0,
\* over the area of the union: 0 for disjoint boxes, 1 for identical ones.
C8_ClampedScore ==
    pcIoU = "done" =>
        /\ score[2] # 0
        /\ score[1] * ClampedUnion(bbox1, bbox2)
               = ClampedIntersection(bbox1, bbox2) * score[2]

(***************************************************************************)
(* Properties of pyramid_lucas_kanade (specification SpecPyr).             *)
(***************************************************************************)
\* the direct call iterative_lucas_kanade(img1, img2, keypoints,
\* window_size, num_iters, g=zeros)
DirectRefiner ==
    iterative_lucas_kanade(img1, img2, keypoints, window_size, num_iters,
                           ZeroGuess(keypoints))

\* the finished call agrees with the result r
AgreesWith(r) ==
    /\ (pcPyr = "raised") <=> r.raised
    /\ pcPyr = "done" => d = r.flows

\* some component of some vector of fl is not 0
Moving(fl) == \E k \in 1..Len(fl) : fl[k] # <<Zero, Zero>>

\* C9: with level = 0 the refiner is called once, on the frames themselves
\* and the keypoints as given with a guess of zeros, and the call returns
\* what iterative_lucas_kanade returns for the same input (or raises when it
\* raises).
C9_LevelZeroIsRefiner ==
    (level = 0 /\ pcPyr \in {"done", "raised"}) =>
        /\ pyramid1 = <<img1>> /\ pyramid2 = <<img2>>
        /\ KeypointsAt(keypoints, scale, 0) = keypoints
        /\ Len(calls) <= 1
        /\ \A k \in 1..Len(calls) :
              calls[k].level = 0 /\ calls[k].guess = ZeroGuess(keypoints)
        /\ pcPyr = "done" => Len(calls) = 1
        /\ AgreesWith(DirectRefiner)

\* C9 witness: a call with level = 0 returned a flow that is not zero
C9_Witness ==
    /\ level = 0 /\ pcPyr = "done"
    /\ keypoints # <<>> /\ Moving(d)

\* scale * v for each vector of fl
Scaled(sc, fl) == [k \in 1..Len(fl) |-> VMulInt(sc, fl[k])]

\* the sum over the calls from the k-th on of scale^level times the
\* displacement of the call
RECURSIVE WeightedSum(_)
WeightedSum(k) ==
    IF k > Len(calls) THEN ZeroGuess(keypoints)
    ELSE FinalFlow(Scaled(Pow(scale, calls[k].level), calls[k].d), WeightedSum(k + 1))

\* the guess after the calls made so far
GuessAfterCalls ==
    IF calls = <<>> THEN ZeroGuess(keypoints)
    ELSE IF calls[Len(calls)].level = 0 THEN calls[Len(calls)].guess
    ELSE Scaled(scale, FinalFlow(calls[Len(calls)].guess, calls[Len(calls)].d))

\* C10: the refiner is called once per level, from level down to 0, first
\* with a guess of zeros and then with scale * (g + d) of the level above;
\* the guess is left as it is after level 0, and the flow returned is g + d
\* of level 0, the sum over the levels l of scale^l * d_l.
C10_CoarseToFine ==
    pcPyr \in {"loop", "done", "raised"} =>
        /\ \A k \in 1..Len(calls) : calls[k].level = level - (k - 1)
        /\ Len(calls) >= 1 => calls[1].guess = ZeroGuess(keypoints)
        /\ \A k \in 1..(Len(calls) - 1) :
              calls[k + 1].guess = Scaled(scale, FinalFlow(calls[k].guess, calls[k].d))
        /\ g = GuessAfterCalls
        /\ pcPyr = "done" =>
              /\ Len(calls) = level + 1
              /\ d = FinalFlow(calls[Len(calls)].guess, calls[Len(calls)].d)
              /\ d = WeightedSum(1)

\* C10 witness: a call with level >= 1 returned after the coarsest level
\* found a displacement that is not zero
C10_Witness ==
    /\ level >= 1 /\ pcPyr = "done"
    /\ keypoints # <<>> /\ Moving(calls[1].d)
    /\ Moving(calls[Len(calls)].d)

====
